---- MODULE Spec2Model ----
(***************************************************************************)
(* Chess tournament finder (src/src/App.jsx, first revision, lines 1-560): *)
(* the filename parser parseFilename, the filter / facet engine of the App *)
(* component and its mount effect, which lists the storage folder page by  *)
(* page; and the parseFilename of TournamentCard in the revisions held in  *)
(* src/unnamed/part_000.                                                   *)
(*                                                                         *)
(* A JavaScript string is a sequence of one-character strings, so that     *)
(* split, trim, join and the regular expressions of the source are         *)
(* computed character by character.                                        *)
(***************************************************************************)
EXTENDS Integers, Sequences, FiniteSets, TLC

VARIABLES
    engine,          \* the browser's Date parser: how it treats a day past the month's end
    pname,           \* parser harness: the name handed to parseFilename
    prec,            \* parser harness: <<>> or <<the record parseFilename returned>>
    vname,           \* parser harness: a re-spaced variant of pname
    vrec,            \* parser harness: <<>> or <<parseFilename(vname)>>
    card,            \* parser harness: <<>> or the records TournamentCard's revisions return
    configured,      \* API_KEY and FOLDER_ID are both set
    pc,              \* the mount effect's position: "mount", "request" or "done"
    allFiles,        \* fetchAllFiles: the names gathered so far
    nextPageToken,   \* fetchAllFiles: the token for the next request
    pages,           \* the requests answered so far: token sent, files and token returned
    published,       \* the number of setFiles calls so far
    error,           \* useState error
    files,           \* useState files: the fetched records, each with its parsedData cache
    search,          \* useState search
    monthFilter,     \* useState monthFilter
    countryFilter,   \* useState countryFilter
    typeFilter,      \* useState typeFilter
    statusFilter,    \* useState statusFilter
    loading,         \* useState loading
    now,             \* the wall clock, in days
    filteredFiles,   \* useMemo filteredFiles: the displayed list
    monthOptions,    \* useMemo monthOptions
    countryOptions,  \* useMemo countryOptions
    typeOptions      \* useMemo typeOptions

parseVars == <<pname, prec, vname, vrec, card>>
fetchVars == <<configured, pc, allFiles, nextPageToken, pages, published, error>>
appVars == <<files, search, monthFilter, countryFilter, typeFilter, statusFilter,
             loading, now, filteredFiles, monthOptions, countryOptions, typeOptions>>
vars == <<engine, parseVars, appVars, fetchVars>>

\* null, as a page token and as the error
NoToken == "null"
NoError == "null"

-----------------------------------------------------------------------------
(* Characters *)

UpperCase == <<"A","B","C","D","E","F","G","H","I","J","K","L","M",
               "N","O","P","Q","R","S","T","U","V","W","X","Y","Z">>
LowerCase == <<"a","b","c","d","e","f","g","h","i","j","k","l","m",
               "n","o","p","q","r","s","t","u","v","w","x","y","z">>
DigitChars == <<"0","1","2","3","4","5","6","7","8","9">>

Range(s) == {s[i] : i \in DOMAIN s}

Digits == Range(DigitChars)
Letters == Range(UpperCase) \cup Range(LowerCase)

IsDigit(c) == c \in Digits
IsLetter(c) == c \in Letters
\* String.prototype.trim's white space, as far as the modelled alphabet has it
IsWhiteSpace(c) == c \in {" ", "\t"}

DigitValues == [c \in Digits |-> (CHOOSE i \in DOMAIN DigitChars : DigitChars[i] = c) - 1]

DigitVal(c) == DigitValues[c]

LowerOfUpper ==
    [c \in Range(UpperCase) |-> LowerCase[CHOOSE i \in DOMAIN UpperCase : UpperCase[i] = c]]

ToLowerChar(c) == IF c \in DOMAIN LowerOfUpper THEN LowerOfUpper[c] ELSE c

\* String.prototype.toLowerCase
ToLowerCase(s) == [i \in DOMAIN s |-> ToLowerChar(s[i])]

-----------------------------------------------------------------------------
(* String primitives of the JavaScript runtime used by the source *)

\* s.substring(from - 1): the suffix of s starting at index from
Drop(s, from) == SubSeq(s, from, Len(s))

\* index of the first occurrence of c in s, 0 when there is none
IndexOf(s, c) ==
    IF \E i \in DOMAIN s : s[i] = c
    THEN CHOOSE i \in DOMAIN s : s[i] = c /\ \A j \in 1..(i - 1) : s[j] # c
    ELSE 0

\* s.split(c) for a one-character separator: never empty, "" gives [""]
RECURSIVE Split(_, _)
Split(s, c) ==
    LET i == IndexOf(s, c)
    IN  IF i = 0 THEN <<s>>
        ELSE <<SubSeq(s, 1, i - 1)>> \o Split(Drop(s, i + 1), c)

\* parts.join(c)
RECURSIVE Join(_, _)
Join(parts, c) ==
    IF Len(parts) = 0 THEN <<>>
    ELSE IF Len(parts) = 1 THEN parts[1]
    ELSE parts[1] \o <<c>> \o Join(Tail(parts), c)

\* s.trim()
Trim(s) ==
    IF \A i \in DOMAIN s : IsWhiteSpace(s[i]) THEN <<>>
    ELSE LET first == CHOOSE i \in DOMAIN s :
                          /\ ~IsWhiteSpace(s[i])
                          /\ \A j \in 1..(i - 1) : IsWhiteSpace(s[j])
             last  == CHOOSE i \in DOMAIN s :
                          /\ ~IsWhiteSpace(s[i])
                          /\ \A j \in (i + 1)..Len(s) : IsWhiteSpace(s[j])
         IN  SubSeq(s, first, last)

\* s.includes(t)
Includes(s, t) ==
    \E i \in 1..(Len(s) - Len(t) + 1) : SubSeq(s, i, i + Len(t) - 1) = t

\* name.replace(/\.pdf$/i, '')
StripPdf(name) ==
    LET n == Len(name)
    IN  IF n >= 4 /\ ToLowerCase(SubSeq(name, n - 3, n)) = <<".", "p", "d", "f">>
        THEN SubSeq(name, 1, n - 4)
        ELSE name

\* s.match(/^\d+/): <<>> for null, else <<the leading run of digits>>
MatchLeadingDigits(s) ==
    IF Len(s) = 0 \/ ~IsDigit(s[1]) THEN <<>>
    ELSE LET last == CHOOSE i \in DOMAIN s :
                         /\ \A j \in 1..i : IsDigit(s[j])
                         /\ (i = Len(s) \/ ~IsDigit(s[i + 1]))
         IN  <<SubSeq(s, 1, last)>>

\* s.match(/[a-zA-Z]+/): <<>> for null, else <<the first maximal run of letters>>
MatchLetters(s) ==
    IF ~\E i \in DOMAIN s : IsLetter(s[i]) THEN <<>>
    ELSE LET first == CHOOSE i \in DOMAIN s :
                          IsLetter(s[i]) /\ \A j \in 1..(i - 1) : ~IsLetter(s[j])
             last  == CHOOSE i \in first..Len(s) :
                          /\ \A j \in first..i : IsLetter(s[j])
                          /\ (i = Len(s) \/ ~IsLetter(s[i + 1]))
         IN  <<SubSeq(s, first, last)>>

\* s.match(/\d{4}/): <<>> for null, else <<the leftmost four consecutive digits>>
MatchYear(s) ==
    LET starts == {i \in 1..(Len(s) - 3) : \A j \in i..(i + 3) : IsDigit(s[j])}
    IN  IF starts = {} THEN <<>>
        ELSE LET i == CHOOSE k \in starts : \A m \in starts : k <= m
             IN  <<SubSeq(s, i, i + 3)>>

\* the number a run of decimal digits denotes
RECURSIVE DigitsToNat(_)
DigitsToNat(ds) ==
    IF Len(ds) = 0 THEN 0
    ELSE 10 * DigitsToNat(SubSeq(ds, 1, Len(ds) - 1)) + DigitVal(ds[Len(ds)])

-----------------------------------------------------------------------------
(* new Date(string), for the strings parseFilename builds: "<letters> <digits>, <4 digits>" *)

\* a startDate: null, an Invalid Date object (its time is NaN), or a date with
\* its time value in days
NullDate == [kind |-> "null", time |-> 0]
InvalidDate == [kind |-> "invalid", time |-> 0]
DateAt(t) == [kind |-> "date", time |-> t]

MonthNames == << <<"J","a","n","u","a","r","y">>, <<"F","e","b","r","u","a","r","y">>,
                 <<"M","a","r","c","h">>, <<"A","p","r","i","l">>, <<"M","a","y">>,
                 <<"J","u","n","e">>, <<"J","u","l","y">>, <<"A","u","g","u","s","t">>,
                 <<"S","e","p","t","e","m","b","e","r">>, <<"O","c","t","o","b","e","r">>,
                 <<"N","o","v","e","m","b","e","r">>, <<"D","e","c","e","m","b","e","r">> >>

Engines == {"lenient", "strict"}

Prefix3(s) == SubSeq(s, 1, 3)

\* The month the Date parser e reads from a lower-cased word, 0 when it reads
\* none. Date.parse of a non-ISO string is implementation-defined: every
\* engine knows the full English names and their three-letter abbreviations,
\* in any letter case; a lenient engine (V8's legacy parser) looks at the
\* first three letters only.
MonthOfLowerCaseWord(e, w) ==
    LET exact == {m \in DOMAIN MonthNames :
                     \/ w = ToLowerCase(MonthNames[m])
                     \/ w = Prefix3(ToLowerCase(MonthNames[m]))}
        byPrefix == {m \in DOMAIN MonthNames :
                     Len(w) >= 3 /\ Prefix3(w) = Prefix3(ToLowerCase(MonthNames[m]))}
    IN  IF exact # {} THEN CHOOSE m \in exact : TRUE
        ELSE IF byPrefix # {} /\ e = "lenient" THEN CHOOSE m \in byPrefix : TRUE
        ELSE 0

MonthOfWord(e, word) == MonthOfLowerCaseWord(e, ToLowerCase(word))

IsLeap(y) == (y % 4 = 0 /\ y % 100 # 0) \/ y % 400 = 0

DaysInMonth(y, m) ==
    IF m = 2 THEN (IF IsLeap(y) THEN 29 ELSE 28)
    ELSE IF m \in {4, 6, 9, 11} THEN 30
    ELSE 31

RECURSIVE DaysBeforeMonth(_, _)
DaysBeforeMonth(y, m) ==
    IF m <= 1 THEN 0 ELSE DaysBeforeMonth(y, m - 1) + DaysInMonth(y, m - 1)

\* the time value of local midnight of day d of month m of year y, in days;
\* d may run past the month's end (MakeDay carries it into the next month)
DayNumber(y, m, d) ==
    365 * y + ((y - 1) \div 4) - ((y - 1) \div 100) + ((y - 1) \div 400)
    + DaysBeforeMonth(y, m) + d

\* The Date for month m (0: none read), day d and year y on the Date parser e.
\* An unreadable month or a day outside 1..31 gives an Invalid Date; a day of
\* 29..31 past the month's end is carried into the next month by a lenient
\* engine and gives an Invalid Date on a strict one.
DateOf(e, m, d, y) ==
    IF m = 0 \/ d < 1 \/ d > 31 THEN InvalidDate
    ELSE IF d > DaysInMonth(y, m) /\ e = "strict" THEN InvalidDate
    ELSE DateAt(DayNumber(y, m, d))

\* new Date(`${monthName} ${dayDigits}, ${yearDigits}`) on the Date parser e:
\* never throws
NewDate(e, monthName, dayDigits, yearDigits) ==
    DateOf(e, MonthOfWord(e, monthName), DigitsToNat(dayDigits), DigitsToNat(yearDigits))

-----------------------------------------------------------------------------
(* The filename parser, App.jsx lines 8-57 *)

Unknown == <<"U","n","k","n","o","w","n">>

\* noExt.split(' ').filter(p => p.trim() !== '')
Tokens(noExt) == SelectSeq(Split(noExt, " "), LAMBDA p : Trim(p) # <<>>)

\* parts.slice(3).join(' '), '' when there are at most three parts
LocationCountry(parts) ==
    IF Len(parts) > 3 THEN Join(SubSeq(parts, 4, Len(parts)), " ") ELSE <<>>

\* locationCountry.split(',').map(s => s.trim())
CommaParts(locationCountry) ==
    LET raw == Split(locationCountry, ",")
    IN  [i \in DOMAIN raw |-> Trim(raw[i])]

\* CountryOf without the fallback for an empty countryRaw
CountryOf_NoEmptyFallback(commaParts) ==
    IF Len(commaParts) >= 2 THEN commaParts[2] ELSE Unknown

\* countryRaw || 'Unknown', countryRaw being the second element (undefined when
\* the split gave one element)
CountryOf(commaParts) ==
    IF Len(commaParts) >= 2 /\ commaParts[2] # <<>> THEN commaParts[2] ELSE Unknown

\* lines 34-47, from the three matches (<<>> for null)
StartDateOfMatches(e, monthYear, dayMatch, monthNameMatch, yearMatch) ==
    IF dayMatch # <<>> /\ monthYear # <<>> /\ monthNameMatch # <<>> /\ yearMatch # <<>>
    THEN NewDate(e, monthNameMatch[1], dayMatch[1], yearMatch[1])
    ELSE NullDate

\* lines 32-47: startDate
StartDateOf(e, dateRange, monthYear) ==
    StartDateOfMatches(e, monthYear, MatchLeadingDigits(dateRange),
                       MatchLetters(monthYear), MatchYear(monthYear))

\* lines 12-28: parts[k - 1] when there is one, else ''
PartOrEmpty(parts, k) == IF Len(parts) >= k THEN parts[k] ELSE <<>>

\* lines 30-56, from the positional fields and the comma-separated tail
RecordOf(e, dateRange, monthYear, type, commaParts) ==
    [dateRange |-> dateRange,
     monthYear |-> monthYear,
     type      |-> type,
     location  |-> commaParts[1],
     country   |-> CountryOf(commaParts),
     startDate |-> StartDateOf(e, dateRange, monthYear)]

\* lines 12-56, from the tokens
ParseParts(e, parts) ==
    RecordOf(e, PartOrEmpty(parts, 1), PartOrEmpty(parts, 2), PartOrEmpty(parts, 3),
             CommaParts(LocationCountry(parts)))

\* lines 8-57, run on the Date parser e
ParseOn(e, name) == ParseParts(e, Tokens(StripPdf(name)))

\* file names the storage folder can hold
Catalogue ==
    {<<"1","4","-","1","5"," ","J","u","n","e","2","0","2","5"," ","R","a","p","i","d"," ","P","a","r","i","s",","," ","F","r","a","n","c","e",".","p","d","f">>,
     <<"5"," ","J","u","n","e","2","0","2","6"," ","B","l","i","t","z"," ","K","o","c","h","i",".","p","d","f">>,
     <<"3","2"," ","J","u","n","e","2","0","2","5"," ","R","a","p","i","d"," ","R","o","m","e",","," ","I","t","a","l","y",".","p","d","f">>,
     <<"F","l","y","e","r",".","p","d","f">>}

\* ParseOn tabulated for the catalogue's names: a pure function's values
ParsedCatalogue == [e \in Engines |-> [name \in Catalogue |-> ParseOn(e, name)]]

\* parseFilename(name) in the running browser
parseFilename(name) ==
    IF name \in Catalogue THEN ParsedCatalogue[engine][name] ELSE ParseOn(engine, name)

-----------------------------------------------------------------------------
(* The filter / facet engine of App, App.jsx lines 59-301 *)

\* the sentinel 'All' of the month, country and type filters
All == <<"A","l","l">>

StatusValues == {"All", "Upcoming", "Completed"}

\* a record of the fetched list, as the storage API returns it; parsedData is
\* <<>> while the record has no parsedData property
FetchedFile(id, name) == [id |-> id, name |-> name, parsedData |-> <<>>]

\* line 133 / 172: f.name.toLowerCase().includes(search.toLowerCase())
MatchesSearch(name, currentSearch) ==
    Includes(ToLowerCase(name), ToLowerCase(currentSearch))

\* !parsed.startDate || parsed.startDate >= now: a record without startDate
\* taken for an upcoming one
IsUpcoming_NullIsUpcoming(parsed, t) ==
    parsed.startDate.kind = "null"
        \/ (parsed.startDate.kind = "date" /\ parsed.startDate.time >= t)

\* lines 138 / 179: parsed.startDate && parsed.startDate >= now. An Invalid
\* Date is truthy and compares false with everything (its time is NaN).
IsUpcoming(parsed, t) ==
    parsed.startDate.kind # "null" /\ parsed.startDate.kind = "date"
                                   /\ parsed.startDate.time >= t

\* lines 139 / 180: parsed.startDate && parsed.startDate < now
IsCompleted(parsed, t) ==
    parsed.startDate.kind # "null" /\ parsed.startDate.kind = "date"
                                   /\ parsed.startDate.time < t

\* lines 141-146 / 181-186
MatchesStatus(parsed, currentStatus, t) ==
    IF currentStatus = "Upcoming" THEN IsUpcoming(parsed, t)
    ELSE IF currentStatus = "Completed" THEN IsCompleted(parsed, t)
    ELSE TRUE

\* a cache read that loses the Date object of startDate
ParsedDataOf_CacheDropsStartDate(f) ==
    IF f.parsedData # <<>> THEN [f.parsedData[1] EXCEPT !.startDate = NullDate]
    ELSE parseFilename(f.name)

\* line 130: f.parsedData || parseFilename(f.name)
ParsedDataOf(f) == IF f.parsedData # <<>> THEN f.parsedData[1] ELSE parseFilename(f.name)

\* every record given the first record's parsedData
WithParsedData_FirstForAll(fs) ==
    [i \in DOMAIN fs |-> [fs[i] EXCEPT !.parsedData = <<ParsedDataOf(fs[1])>>]]

\* line 131: f.parsedData = parsed, for every record the filter callback visits
WithParsedData(fs) ==
    [i \in DOMAIN fs |-> [fs[i] EXCEPT !.parsedData = <<ParsedDataOf(fs[i])>>]]

\* the filter callback without its matchesType conjunct
PassesFilter_TypeIgnored(f, s, m, c, ty, st, t) ==
    LET parsed == f.parsedData[1]
    IN  /\ MatchesSearch(f.name, s)
        /\ (m = All \/ parsed.monthYear = m)
        /\ (c = All \/ parsed.country = c)
        /\ MatchesStatus(parsed, st, t)

\* lines 133-148: the filter callback's result for a record carrying its
\* parsedData, under the given filter state and clock t
PassesFilter(f, s, m, c, ty, st, t) ==
    LET parsed == f.parsedData[1]
    IN  /\ MatchesSearch(f.name, s)
        /\ (m = All \/ parsed.monthYear = m)
        /\ (c = All \/ parsed.country = c)
        /\ (ty = All \/ parsed.type = ty)
        /\ MatchesStatus(parsed, st, t)

\* lines 151-160: the sort comparator; a NaN result counts as 0
\* (Array.prototype.sort reads a NaN from the comparator as +0)
CompareByStartDate(a, b) ==
    LET dateA == a.parsedData[1].startDate
        dateB == b.parsedData[1].startDate
    IN  IF dateA.kind = "null" /\ dateB.kind = "null" THEN 0
        ELSE IF dateA.kind = "null" THEN 1
        ELSE IF dateB.kind = "null" THEN -1
        ELSE IF dateA.kind = "invalid" \/ dateB.kind = "invalid" THEN 0
        ELSE dateA.time - dateB.time

Max(S) == CHOOSE x \in S : \A y \in S : y <= x

\* a with item put at index at, the elements from there on moved up by one
InsertAt(a, at, item) == SubSeq(a, 1, at - 1) \o <<item>> \o SubSeq(a, at, Len(a))

\* Array.prototype.sort(comparator) as an insertion sort scanning from the
\* right (SpiderMonkey, short arrays): item goes behind the last element
\* that does not compare greater than it
RECURSIVE InsertionSortFrom(_, _)
InsertionSortFrom(a, i) ==
    IF i > Len(a) THEN a
    ELSE LET item == a[i]
             notGreater == {j \in 1..(i - 1) : CompareByStartDate(a[j], item) <= 0}
             at == IF notGreater = {} THEN 1 ELSE Max(notGreater) + 1
         IN  InsertionSortFrom(InsertAt(SubSeq(a, 1, i - 1), at, item)
                                   \o SubSeq(a, i + 1, Len(a)), i + 1)

InsertionSort(a) == InsertionSortFrom(a, 2)

\* V8's TimSort on an array shorter than its minimal run: the length of the
\* initial run (CountAndMakeRun) ...
RunLength(a) ==
    LET descending == CompareByStartDate(a[2], a[1]) < 0
        inRun(k) == \A idx \in 3..k :
                        IF descending THEN CompareByStartDate(a[idx], a[idx - 1]) < 0
                        ELSE CompareByStartDate(a[idx], a[idx - 1]) >= 0
    IN  Max({k \in 2..Len(a) : inRun(k)})

Reverse(a) == [i \in DOMAIN a |-> a[Len(a) + 1 - i]]

\* ... reversed in place when it descends strictly ...
MakeRun(a) ==
    LET r == RunLength(a)
    IN  IF CompareByStartDate(a[2], a[1]) < 0
        THEN Reverse(SubSeq(a, 1, r)) \o SubSeq(a, r + 1, Len(a))
        ELSE a

\* ... and the place of pivot in a[left .. right-1], by bisection
RECURSIVE BinarySearchPlace(_, _, _, _)
BinarySearchPlace(a, pivot, left, right) ==
    IF left >= right THEN left
    ELSE LET mid == left + ((right - left) \div 2)
         IN  IF CompareByStartDate(pivot, a[mid]) < 0
             THEN BinarySearchPlace(a, pivot, left, mid)
             ELSE BinarySearchPlace(a, pivot, mid + 1, right)

\* ... of every element behind the run (BinaryInsertionSort)
RECURSIVE BinaryInsertionSortFrom(_, _)
BinaryInsertionSortFrom(a, start) ==
    IF start > Len(a) THEN a
    ELSE LET pivot == a[start]
             at == BinarySearchPlace(a, pivot, 1, start)
         IN  BinaryInsertionSortFrom(InsertAt(SubSeq(a, 1, start - 1), at, pivot)
                                         \o SubSeq(a, start + 1, Len(a)), start + 1)

TimSort(a) ==
    IF Len(a) < 2 THEN a
    ELSE BinaryInsertionSortFrom(MakeRun(a), RunLength(a) + 1)

\* filtered.sort(comparator): the order is the engine's when the comparator is
\* not a consistent one; the two algorithms agree when it is
SortOutcomes(a) == {InsertionSort(a), TimSort(a)}

\* lines 126-163: the values filteredFiles can take
FilteredFilesOutcomes(fs, s, m, c, ty, st, t) ==
    SortOutcomes(SelectSeq(WithParsedData(fs),
                           LAMBDA f : PassesFilter(f, s, m, c, ty, st, t)))

\* counts.set(value, 1): the tally started again at every record
CountInto_NoIncrement(counts, value) ==
    IF \E i \in DOMAIN counts : counts[i].value = value
    THEN [i \in DOMAIN counts |->
             IF counts[i].value = value
             THEN [counts[i] EXCEPT !.count = 1] ELSE counts[i]]
    ELSE Append(counts, [value |-> value, count |-> 1])

\* counts.set(value, (counts.get(value) || 0) + 1) on a Map kept as the
\* sequence of its entries in insertion order
CountInto(counts, value) ==
    IF \E i \in DOMAIN counts : counts[i].value = value
    THEN [i \in DOMAIN counts |->
             IF counts[i].value = value
             THEN [counts[i] EXCEPT !.count = @ + 1] ELSE counts[i]]
    ELSE Append(counts, [value |-> value, count |-> 1])

\* counts.get(value) || 0
CountOf(counts, value) ==
    IF \E i \in DOMAIN counts : counts[i].value = value
    THEN counts[CHOOSE i \in DOMAIN counts : counts[i].value = value].count
    ELSE 0

\* lines 174-177
MatchesOtherFilters(parsed, attribute, currentMonth, currentCountry, currentType) ==
    /\ (attribute = "monthYear" \/ currentMonth = All \/ parsed.monthYear = currentMonth)
    /\ (attribute = "country" \/ currentCountry = All \/ parsed.country = currentCountry)
    /\ (attribute = "type" \/ currentType = All \/ parsed.type = currentType)

\* the forEach callback without its if (value) test
CountFile_EmptyCounted(counts, name, parsed, t, attribute, currentMonth, currentCountry, currentType, currentSearch, currentStatus) ==
    IF /\ MatchesSearch(name, currentSearch)
       /\ MatchesOtherFilters(parsed, attribute, currentMonth, currentCountry, currentType)
       /\ MatchesStatus(parsed, currentStatus, t)
    THEN CountInto(counts, parsed[attribute])
    ELSE counts

\* the forEach callback without its matchesStatus conjunct
CountFile_StatusIgnored(counts, name, parsed, t, attribute, currentMonth, currentCountry, currentType, currentSearch, currentStatus) ==
    IF /\ MatchesSearch(name, currentSearch)
       /\ MatchesOtherFilters(parsed, attribute, currentMonth, currentCountry, currentType)
       /\ parsed[attribute] # <<>>
    THEN CountInto(counts, parsed[attribute])
    ELSE counts

\* lines 172-193: the forEach callback's effect on counts for one file, parsed
\* being parseFilename(name)
CountFile(counts, name, parsed, t, attribute, currentMonth, currentCountry, currentType, currentSearch, currentStatus) ==
    IF /\ MatchesSearch(name, currentSearch)
       /\ MatchesOtherFilters(parsed, attribute, currentMonth, currentCountry, currentType)
       /\ MatchesStatus(parsed, currentStatus, t)
       /\ parsed[attribute] # <<>>
    THEN CountInto(counts, parsed[attribute])
    ELSE counts

\* lines 166-196, over the files fs and the clock t of the render that calls it
RECURSIVE getFilteredCounts(_, _, _, _, _, _, _, _)
getFilteredCounts(fs, t, attribute, currentMonth, currentCountry, currentType, currentSearch, currentStatus) ==
    IF fs = <<>> THEN <<>>
    ELSE CountFile(getFilteredCounts(SubSeq(fs, 1, Len(fs) - 1), t, attribute,
                       currentMonth, currentCountry, currentType, currentSearch,
                       currentStatus),
                   fs[Len(fs)].name, parseFilename(fs[Len(fs)].name), t, attribute,
                   currentMonth, currentCountry, currentType, currentSearch,
                   currentStatus)

\* Array.from(counts.keys())
KeysOf(counts) == [i \in DOMAIN counts |-> counts[i].value]

\* lines 198-201
MONTH_ORDER == MonthNames

\* MONTH_ORDER.indexOf(name)
MonthOrderIndex(name) ==
    IF \E i \in DOMAIN MONTH_ORDER : MONTH_ORDER[i] = name
    THEN (CHOOSE i \in DOMAIN MONTH_ORDER : MONTH_ORDER[i] = name) - 1
    ELSE -1

\* lines 203-207
getMonthName(monthYearString) ==
    IF \E i \in DOMAIN monthYearString : IsDigit(monthYearString[i])
    THEN LET firstDigit == CHOOSE i \in DOMAIN monthYearString :
                 /\ IsDigit(monthYearString[i])
                 /\ \A j \in 1..(i - 1) : ~IsDigit(monthYearString[j])
         IN  SubSeq(monthYearString, 1, firstDigit - 1)
    ELSE monthYearString

\* lines 209-213
getYear(monthYearString) ==
    IF MatchYear(monthYearString) = <<>> THEN 0
    ELSE DigitsToNat(MatchYear(monthYearString)[1])

\* the comparator with the month compared before the year
CompareMonths_MonthBeforeYear(a, b) ==
    IF MonthOrderIndex(getMonthName(a)) # MonthOrderIndex(getMonthName(b))
    THEN MonthOrderIndex(getMonthName(a)) - MonthOrderIndex(getMonthName(b))
    ELSE getYear(a) - getYear(b)

\* lines 220-235: the comparator of the month options
CompareMonths(a, b) ==
    IF getYear(a) # getYear(b) THEN getYear(a) - getYear(b)
    ELSE MonthOrderIndex(getMonthName(a)) - MonthOrderIndex(getMonthName(b))

\* uniqueMonths.sort(comparator): the comparator orders by the pair (year,
\* index), so every stable sort gives the same order
RECURSIVE SortMonthsFrom(_, _)
SortMonthsFrom(a, i) ==
    IF i > Len(a) THEN a
    ELSE LET notGreater == {j \in 1..(i - 1) : CompareMonths(a[j], a[i]) <= 0}
             at == IF notGreater = {} THEN 1 ELSE Max(notGreater) + 1
         IN  SortMonthsFrom(InsertAt(SubSeq(a, 1, i - 1), at, a[i])
                                \o SubSeq(a, i + 1, Len(a)), i + 1)

SortMonths(a) == SortMonthsFrom(a, 2)

\* the decimal digits of a number, as template literals print it
RECURSIVE NatToDigits(_)
NatToDigits(n) ==
    IF n < 10 THEN <<DigitChars[n + 1]>>
    ELSE NatToDigits(n \div 10) \o <<DigitChars[(n % 10) + 1]>>

\* `${text} (${count})`
WithCount(text, count) == text \o <<" ", "(">> \o NatToDigits(count) \o <<")">>

AllOption == [value |-> All, label |-> All]

\* lines 237-241: monthNameOccurrences.get(name)
MonthNameOccurrences(uniqueMonths, name) ==
    Cardinality({i \in DOMAIN uniqueMonths : getMonthName(uniqueMonths[i]) = name})

\* the year appended to every label
MonthDisplayLabel_AlwaysYear(uniqueMonths, m) ==
    getMonthName(m) \o <<" ">> \o NatToDigits(getYear(m))

\* lines 247-253
MonthDisplayLabel(uniqueMonths, m) ==
    IF MonthNameOccurrences(uniqueMonths, getMonthName(m)) > 1
    THEN getMonthName(m) \o <<" ">> \o NatToDigits(getYear(m))
    ELSE getMonthName(m)

\* lines 243-259
MonthOptionList(counts, sortedMonths) ==
    <<AllOption>> \o
    [i \in DOMAIN sortedMonths |->
        [value |-> sortedMonths[i],
         label |-> IF sortedMonths[i] = All THEN All
                   ELSE WithCount(MonthDisplayLabel(sortedMonths, sortedMonths[i]),
                                  CountOf(counts, sortedMonths[i]))]]

\* lines 218-259
MonthOptionsOfCounts(counts) == MonthOptionList(counts, SortMonths(KeysOf(counts)))

\* lines 216-260
MonthOptionsOf(fs, t, currentCountry, currentType, currentSearch, currentStatus) ==
    MonthOptionsOfCounts(getFilteredCounts(fs, t, "monthYear", All, currentCountry,
                                           currentType, currentSearch, currentStatus))

\* the characters of the model in the order of their UTF-16 code units
CodeUnitOrder == <<"\t", " ", ",", "-", ".">> \o DigitChars \o UpperCase \o LowerCase

CodeUnit(c) == CHOOSE i \in DOMAIN CodeUnitOrder : CodeUnitOrder[i] = c

\* a < b as Array.prototype.sort() without a comparator orders strings
RECURSIVE StringLess(_, _)
StringLess(a, b) ==
    IF b = <<>> THEN FALSE
    ELSE IF a = <<>> THEN TRUE
    ELSE IF a[1] # b[1] THEN CodeUnit(a[1]) < CodeUnit(b[1])
    ELSE StringLess(Tail(a), Tail(b))

\* Array.from(new Set(keys)).sort()
RECURSIVE SortStrings(_)
SortStrings(S) ==
    IF S = {} THEN <<>>
    ELSE LET least == CHOOSE x \in S : \A y \in S \ {x} : StringLess(x, y)
         IN  <<least>> \o SortStrings(S \ {least})

\* the options without the leading 'All'
OptionList_NoAll(counts, sorted) ==
    [i \in DOMAIN sorted |->
        [value |-> sorted[i],
         label |-> IF sorted[i] = All THEN All
                   ELSE WithCount(sorted[i], CountOf(counts, sorted[i]))]]

\* lines 267-270 / 278-281
OptionList(counts, sorted) ==
    <<AllOption>> \o
    [i \in DOMAIN sorted |->
        [value |-> sorted[i],
         label |-> IF sorted[i] = All THEN All
                   ELSE WithCount(sorted[i], CountOf(counts, sorted[i]))]]

\* lines 265-270 / 276-281
LabelledOptions(counts) == OptionList(counts, SortStrings(Range(KeysOf(counts))))

\* the country options tallied without the month selection
CountryOptionsOf_MonthIgnored(fs, t, currentMonth, currentType, currentSearch, currentStatus) ==
    LabelledOptions(getFilteredCounts(fs, t, "country", All, All, currentType,
                                      currentSearch, currentStatus))

\* lines 263-271
CountryOptionsOf(fs, t, currentMonth, currentType, currentSearch, currentStatus) ==
    LabelledOptions(getFilteredCounts(fs, t, "country", currentMonth, All, currentType,
                                      currentSearch, currentStatus))

\* lines 274-282
TypeOptionsOf(fs, t, currentMonth, currentCountry, currentSearch, currentStatus) ==
    LabelledOptions(getFilteredCounts(fs, t, "type", currentMonth, currentCountry, All,
                                      currentSearch, currentStatus))

-----------------------------------------------------------------------------
(* The App component: state, render and event handlers *)

\* the longest fetched list
MaxFiles == 2

FetchableLists == UNION {[1..n -> Catalogue] : n \in 0..MaxFiles}

\* texts typed into the search field
SearchTexts == {<<>>, <<"R","A","P","I","D">>}

\* readings of the wall clock: the start day of a catalogue entry, and a day
\* between two of them
Clocks == {DayNumber(2025, 6, 14), DayNumber(2026, 1, 1)}

OptionValues(options) == {options[i].value : i \in DOMAIN options}

\* One render of App after a state update to (fs, s, m, c, ty, st): each
\* useMemo whose dependency list changed is recomputed, the others keep their
\* value. filesChanged: setFiles installed a new array.
Render(filesChanged, fs, s, m, c, ty, st) ==
    LET searchChanged == s # search
        monthChanged == m # monthFilter
        countryChanged == c # countryFilter
        typeChanged == ty # typeFilter
        statusChanged == st # statusFilter
    IN  /\ search' = s
        /\ monthFilter' = m
        /\ countryFilter' = c
        /\ typeFilter' = ty
        /\ statusFilter' = st
        /\ IF filesChanged \/ searchChanged \/ monthChanged \/ countryChanged
                \/ typeChanged \/ statusChanged
           THEN /\ files' = WithParsedData(fs)
                /\ filteredFiles' \in FilteredFilesOutcomes(fs, s, m, c, ty, st, now)
           ELSE /\ files' = fs
                /\ filteredFiles' = filteredFiles
        /\ monthOptions' =
               IF filesChanged \/ searchChanged \/ countryChanged \/ typeChanged
                   \/ statusChanged
               THEN MonthOptionsOf(fs, now, c, ty, s, st)
               ELSE monthOptions
        /\ countryOptions' =
               IF filesChanged \/ searchChanged \/ monthChanged \/ typeChanged
                   \/ statusChanged
               THEN CountryOptionsOf(fs, now, m, ty, s, st)
               ELSE countryOptions
        /\ typeOptions' =
               IF filesChanged \/ searchChanged \/ monthChanged \/ countryChanged
                   \/ statusChanged
               THEN TypeOptionsOf(fs, now, m, c, s, st)
               ELSE typeOptions

NoParserState ==
    /\ pname = <<>>
    /\ prec = <<>>
    /\ vname = <<>>
    /\ vrec = <<>>
    /\ card = <<>>

NoFetchState ==
    /\ configured = TRUE
    /\ pc = "mount"
    /\ allFiles = <<>>
    /\ nextPageToken = NoToken
    /\ pages = <<>>
    /\ published = 0
    /\ error = NoError

\* lines 60-67 and the first render, before the fetch has answered
Init ==
    /\ engine \in Engines
    /\ now \in Clocks
    /\ files = <<>>
    /\ search = <<>>
    /\ monthFilter = All
    /\ countryFilter = All
    /\ typeFilter = All
    /\ statusFilter = "Upcoming"
    /\ loading = TRUE
    /\ filteredFiles = <<>>
    /\ monthOptions = <<AllOption>>
    /\ countryOptions = <<AllOption>>
    /\ typeOptions = <<AllOption>>
    /\ NoParserState
    /\ NoFetchState

\* lines 119-120: the fetch ends; setFiles(allFiles), setLoading(false)
FetchDone ==
    /\ loading
    /\ \E names \in FetchableLists :
           Render(TRUE, [i \in DOMAIN names |-> FetchedFile(i, names[i])],
                  search, monthFilter, countryFilter, typeFilter, statusFilter)
    /\ loading' = FALSE
    /\ UNCHANGED <<engine, now, parseVars, fetchVars>>

\* line 399: onChange of the search field
SetSearch ==
    /\ \E s \in SearchTexts :
           Render(FALSE, files, s, monthFilter, countryFilter, typeFilter, statusFilter)
    /\ UNCHANGED <<engine, now, loading, parseVars, fetchVars>>

\* line 410: onChange of the month select, whose options are monthOptions
SetMonth ==
    /\ \E m \in OptionValues(monthOptions) :
           Render(FALSE, files, search, m, countryFilter, typeFilter, statusFilter)
    /\ UNCHANGED <<engine, now, loading, parseVars, fetchVars>>

\* onChange of the country select
SetCountry ==
    /\ \E c \in OptionValues(countryOptions) :
           Render(FALSE, files, search, monthFilter, c, typeFilter, statusFilter)
    /\ UNCHANGED <<engine, now, loading, parseVars, fetchVars>>

\* onChange of the type select
SetType ==
    /\ \E ty \in OptionValues(typeOptions) :
           Render(FALSE, files, search, monthFilter, countryFilter, ty, statusFilter)
    /\ UNCHANGED <<engine, now, loading, parseVars, fetchVars>>

\* onChange of the status select, whose options are statusOptions (lines 284-288)
SetStatusFilter ==
    /\ \E st \in StatusValues :
           Render(FALSE, files, search, monthFilter, countryFilter, typeFilter, st)
    /\ UNCHANGED <<engine, now, loading, parseVars, fetchVars>>

\* lines 294-301
clearFilters ==
    /\ Render(FALSE, files, <<>>, All, All, All, "Upcoming")
    /\ UNCHANGED <<engine, now, loading, parseVars, fetchVars>>

Next ==
    \/ FetchDone
    \/ SetSearch
    \/ SetMonth
    \/ SetCountry
    \/ SetType
    \/ SetStatusFilter
    \/ clearFilters

Spec == Init /\ [][Next]_vars

-----------------------------------------------------------------------------
(* Parser harness: parseFilename applied to names built from a vocabulary *)

\* tokens a name starts with
HeadVocabulary ==
    {<<"1","4","-","1","5">>,
     <<"3","1">>,
     <<"3","2">>,
     <<"J","u","n","e","2","0","2","5">>,
     <<"F","o","o","2","0","2","5">>,
     <<"R","a","p","i","d">>}

\* what follows the first three tokens
TailVocabulary ==
    {<<>>,
     <<"P","a","r","i","s">>,
     <<"P","a","r","i","s",","," ","F","r","a","n","c","e">>,
     <<"P","a","r","i","s",",","\t">>,
     <<","," ","F","r","a","n","c","e">>,
     <<"P","a","r","i","s",","," ","I","l","e",","," ","F","r","a","n","c","e">>,
     <<"P","a","r","i","s",",",","," ","F","r","a","n","c","e">>}

Extensions ==
    {<<>>, <<".","p","d","f">>, <<".","P","D","F">>}

\* the number of positional fields before the location: dateRange, monthYear, type
HeadFields == 3

HeadSeqs == UNION {[1..n -> HeadVocabulary] : n \in 0..HeadFields}

\* the tokens of head, then tail, separated by single spaces, then ext
BuildName(head, tail, ext) ==
    Join(head \o (IF tail = <<>> THEN <<>> ELSE <<tail>>), " ") \o ext

\* names of the kind the storage folder holds
ExampleNames ==
    {<<"1","4","-","1","5"," ","J","u","n","e","2","0","2","5"," ","C","l","a","s","s","i","c","a","l"," ","P","a","r","i","s",","," ","F","r","a","n","c","e",".","p","d","f">>,
     <<"2","2"," ","J","u","l","y","2","0","2","5"," ","R","a","p","i","d"," ","K","o","c","h","i",".","p","d","f">>,
     <<"5"," ","A","u","g","u","s","t","2","0","2","5",".","p","d","f">>}

ParserInputs ==
    {BuildName(h, t, e) : h \in HeadSeqs, t \in TailVocabulary, e \in Extensions}
        \cup ExampleNames

\* name with the character at position i replaced by the string by
ReplaceAt(name, i, by) == SubSeq(name, 1, i - 1) \o by \o Drop(name, i + 1)

\* the single spaces of name that separate two tokens
SeparatorsOf(name) ==
    {i \in 2..(Len(name) - 1) :
        name[i] = " " /\ ~IsWhiteSpace(name[i - 1]) /\ ~IsWhiteSpace(name[i + 1])}

\* white space a separator is replaced by, and white space put before the name
SeparatorVariants == {<<" ", " ">>, <<"\t">>}
LeadVariants == {<<" ">>, <<"\t">>}

NoAppState ==
    /\ files = <<>>
    /\ search = <<>>
    /\ monthFilter = All
    /\ countryFilter = All
    /\ typeFilter = All
    /\ statusFilter = "Upcoming"
    /\ loading = TRUE
    /\ now = 0
    /\ filteredFiles = <<>>
    /\ monthOptions = <<>>
    /\ countryOptions = <<>>
    /\ typeOptions = <<>>

InitParse ==
    /\ engine \in Engines
    /\ pname \in ParserInputs
    /\ prec = <<>>
    /\ vname = <<>>
    /\ vrec = <<>>
    /\ card = <<>>
    /\ NoAppState
    /\ NoFetchState

\* parseFilename(pname)
Parse ==
    /\ prec = <<>>
    /\ prec' = <<parseFilename(pname)>>
    /\ UNCHANGED <<engine, pname, vname, vrec, card, appVars, fetchVars>>

\* parseFilename of pname with one separator replaced by other white space
RespaceSeparator ==
    /\ prec # <<>>
    /\ vrec = <<>>
    /\ \E i \in SeparatorsOf(pname), ws \in SeparatorVariants :
           /\ vname' = ReplaceAt(pname, i, ws)
           /\ vrec' = <<parseFilename(vname')>>
    /\ UNCHANGED <<engine, pname, prec, card, appVars, fetchVars>>

\* parseFilename of pname with white space put before it
RespaceLead ==
    /\ prec # <<>>
    /\ vrec = <<>>
    /\ pname # <<>>
    /\ \E ws \in LeadVariants :
           /\ vname' = ws \o pname
           /\ vrec' = <<parseFilename(vname')>>
    /\ UNCHANGED <<engine, pname, prec, card, appVars, fetchVars>>

NextParse == Parse \/ RespaceSeparator \/ RespaceLead

SpecParse == InitParse /\ [][NextParse]_vars

-----------------------------------------------------------------------------
(* Properties of the parser, checked under SpecParse *)

\* every (name, record) pair the harness has parsed
Parsed ==
    {<<pname, prec[k]>> : k \in DOMAIN prec} \cup {<<vname, vrec[k]>> : k \in DOMAIN vrec}

\* the tail of a name: its tokens from the fourth on, joined by single spaces
TailOf(name) == LocationCountry(Tokens(StripPdf(name)))

\* the text of s after its first comma (s has one)
AfterFirstComma(s) == Drop(s, IndexOf(s, ",") + 1)
BeforeFirstComma(s) == SubSeq(s, 1, IndexOf(s, ",") - 1)

RecordFields == {"dateRange", "monthYear", "type", "location", "country", "startDate"}

\* C1: parseFilename returns a record for every name, its country is never the
\* empty string, and the country is "Unknown" whenever the tail has no comma
\* or only white space after its first comma.
C1_CountryNeverEmpty ==
    \A p \in Parsed :
        LET tail == TailOf(p[1])
        IN  /\ DOMAIN p[2] = RecordFields
            /\ p[2].country # <<>>
            /\ (IndexOf(tail, ",") = 0 \/ Trim(AfterFirstComma(tail)) = <<>>)
                   => p[2].country = Unknown

\* C1's case: a parsed name whose tail has a comma followed by white space only
C1_Witness ==
    /\ prec # <<>>
    /\ IndexOf(TailOf(pname), ",") > 0
    /\ AfterFirstComma(TailOf(pname)) # <<>>
    /\ Trim(AfterFirstComma(TailOf(pname))) = <<>>
    /\ prec[1].country = Unknown

\* a day, month name and year that denote a calendar date
IsCalendarDate(monthName, dayDigits, yearDigits) ==
    \E m \in DOMAIN MonthNames :
        /\ ToLowerCase(monthName) = ToLowerCase(MonthNames[m])
        /\ DigitsToNat(dayDigits) \in 1..DaysInMonth(DigitsToNat(yearDigits), m)

\* the components of a startDate are all present and valid
DateComponentsValid(r) ==
    /\ MatchLeadingDigits(r.dateRange) # <<>>
    /\ MatchLetters(r.monthYear) # <<>>
    /\ MatchYear(r.monthYear) # <<>>
    /\ IsCalendarDate(MatchLetters(r.monthYear)[1], MatchLeadingDigits(r.dateRange)[1],
                      MatchYear(r.monthYear)[1])

\* C7: startDate is null whenever a component is missing or invalid (no
\* leading digits in dateRange, no month name or no 4-digit year in
\* monthYear, an unknown month name, a day out of range), and a concrete
\* date only when all three are present and valid.
C7_NullUnlessValid ==
    \A p \in Parsed :
        /\ ~DateComponentsValid(p[2]) => p[2].startDate = NullDate
        /\ p[2].startDate.kind = "date" => DateComponentsValid(p[2])

\* C9: when the tail has a comma, location is the trimmed text before the
\* first comma and country the trimmed whole text after the first comma,
\* also when the tail has two or more commas.
C9_CountryIsAllAfterFirstComma ==
    \A p \in Parsed :
        LET tail == TailOf(p[1])
        IN  IndexOf(tail, ",") > 0 =>
                /\ p[2].location = Trim(BeforeFirstComma(tail))
                /\ p[2].country = (IF Trim(AfterFirstComma(tail)) = <<>> THEN Unknown
                                   ELSE Trim(AfterFirstComma(tail)))

\* C10: replacing a separator by a longer run of white space or by another
\* white space character, or adding leading white space, changes none of
\* dateRange, monthYear and type.
C10_RespacingKeepsHeadFields ==
    vrec # <<>> =>
        /\ vrec[1].dateRange = prec[1].dateRange
        /\ vrec[1].monthYear = prec[1].monthYear
        /\ vrec[1].type = prec[1].type

-----------------------------------------------------------------------------
(* Properties of the App component, checked under Spec *)

\* the count an option label ends with: the number between its last "(" and
\* its closing ")"
CountShown(label) ==
    DigitsToNat(SubSeq(label, Max({i \in DOMAIN label : label[i] = "("}) + 1,
                       Len(label) - 1))

\* the record files[i] satisfies the five conditions of the current filter state
SatisfiesFilters(i) ==
    /\ Includes(ToLowerCase(files[i].name), ToLowerCase(search))
    /\ (monthFilter = All \/ parseFilename(files[i].name).monthYear = monthFilter)
    /\ (countryFilter = All \/ parseFilename(files[i].name).country = countryFilter)
    /\ (typeFilter = All \/ parseFilename(files[i].name).type = typeFilter)
    /\ MatchesStatus(parseFilename(files[i].name), statusFilter, now)

\* C2: the displayed list holds exactly the fetched records that satisfy the
\* search, month, country, type and status conditions: none that satisfies
\* them is missing, none that fails one is present, none appears twice.
C2_DisplayedIsExactFilter ==
    /\ \A i \in DOMAIN files :
           SatisfiesFilters(i) <=>
               (\E j \in DOMAIN filteredFiles : filteredFiles[j] = files[i])
    /\ \A j \in DOMAIN filteredFiles :
           \E i \in DOMAIN files : filteredFiles[j] = files[i]
    /\ \A j, k \in DOMAIN filteredFiles :
           j # k => filteredFiles[j].id # filteredFiles[k].id

\* C2's case: two fetched records, search text and two facets selected, one
\* record displayed and the other filtered out
C2_Witness ==
    /\ Len(files) = 2
    /\ Len(filteredFiles) = 1
    /\ search # <<>>
    /\ monthFilter # All
    /\ typeFilter # All

\* the positions in files of the records that match the search text, the
\* status selection and the selections of the facets other than attribute
MatchingOthers(attribute) ==
    {i \in DOMAIN files :
        /\ Includes(ToLowerCase(files[i].name), ToLowerCase(search))
        /\ \/ attribute = "monthYear"
           \/ monthFilter = All
           \/ parseFilename(files[i].name).monthYear = monthFilter
        /\ \/ attribute = "country"
           \/ countryFilter = All
           \/ parseFilename(files[i].name).country = countryFilter
        /\ \/ attribute = "type"
           \/ typeFilter = All
           \/ parseFilename(files[i].name).type = typeFilter
        /\ MatchesStatus(parseFilename(files[i].name), statusFilter, now)}

\* the options after "All" offer the non-empty values of attribute among the
\* records at the positions matching, each with the number of those records
\* that have the value
OptionsReflect(options, attribute, matching) ==
    /\ options[1] = AllOption
    /\ {options[k].value : k \in 2..Len(options)} =
           {parseFilename(files[i].name)[attribute] : i \in matching} \ {<<>>}
    /\ \A k \in 2..Len(options) :
           CountShown(options[k].label) =
               Cardinality({i \in matching :
                   parseFilename(files[i].name)[attribute] = options[k].value})

\* C3: the option values and counts of each facet are those of the records
\* matching the search text, the other two facet selections and the status
\* selection; the facet's own selection does not enter, so changing it alone
\* leaves the facet's option list and counts as they are.
C3_OptionsIgnoreOwnSelection ==
    /\ OptionsReflect(monthOptions, "monthYear", MatchingOthers("monthYear"))
    /\ OptionsReflect(countryOptions, "country", MatchingOthers("country"))
    /\ OptionsReflect(typeOptions, "type", MatchingOthers("type"))

\* C3's case: under the status Upcoming a month is selected, which hides a
\* record, and the month list still offers the month that is not selected
C3_Witness ==
    /\ statusFilter = "Upcoming"
    /\ monthFilter # All
    /\ Len(files) = 2
    /\ Len(filteredFiles) = 1
    /\ Len(monthOptions) = 3
    /\ \E k \in 2..Len(monthOptions) : monthOptions[k].value # monthFilter

\* the lengths the displayed list can have under the current search text and
\* status selection when the facets are set to m, c and ty
DisplayedLengths(m, c, ty) ==
    {Len(shown) : shown \in
        FilteredFilesOutcomes(files, search, m, c, ty, statusFilter, now)}

\* C4: the count shown for an option v of a facet is the number of records
\* the displayed list would hold with that facet set to v and the search
\* text, the other two facets and the status left as they are.
C4_CountIsLengthIfSelected ==
    /\ \A k \in 2..Len(monthOptions) :
           DisplayedLengths(monthOptions[k].value, countryFilter, typeFilter)
               = {CountShown(monthOptions[k].label)}
    /\ \A k \in 2..Len(countryOptions) :
           DisplayedLengths(monthFilter, countryOptions[k].value, typeFilter)
               = {CountShown(countryOptions[k].label)}
    /\ \A k \in 2..Len(typeOptions) :
           DisplayedLengths(monthFilter, countryFilter, typeOptions[k].value)
               = {CountShown(typeOptions[k].label)}

\* C4's case: under the status Upcoming a type is selected, and the type list
\* offers another type with a count of its own
C4_Witness ==
    /\ statusFilter = "Upcoming"
    /\ typeFilter # All
    /\ Len(filteredFiles) = 1
    /\ \E k \in 2..Len(typeOptions) :
           /\ typeOptions[k].value # typeFilter
           /\ CountShown(typeOptions[k].label) = 1

\* the sum of the counts of the options other than "All"
RECURSIVE SumOfCounts(_)
SumOfCounts(options) ==
    IF options = <<>> THEN 0
    ELSE (IF Head(options).value = All THEN 0 ELSE CountShown(Head(options).label))
             + SumOfCounts(Tail(options))

WithValue(attribute, matching) ==
    {i \in matching : parseFilename(files[i].name)[attribute] # <<>>}

ShownUnder(i, st) ==
    \E shown \in FilteredFilesOutcomes(files, <<>>, All, All, All, st, now) :
        \E j \in DOMAIN shown : shown[j].id = files[i].id

\* C6: a record whose startDate is not null is shown under exactly one of
\* the status selections Upcoming and Completed.
C6_StatusPartition ==
    \A i \in DOMAIN files :
        parseFilename(files[i].name).startDate # NullDate =>
            (ShownUnder(i, "Upcoming") <=> ~ShownUnder(i, "Completed"))

\* the displayed record at j has a concrete startDate
HasConcreteDate(j) == filteredFiles[j].parsedData[1].startDate.kind = "date"

\* C8: the displayed list ascends by startDate, every record without a
\* concrete startDate comes after every record with one, and the records
\* without a concrete startDate keep the order of the fetched list.
C8_SortedConcreteFirstStable ==
    \A j, k \in DOMAIN filteredFiles :
        j < k =>
            /\ (HasConcreteDate(j) /\ HasConcreteDate(k)) =>
                   filteredFiles[j].parsedData[1].startDate.time
                       <= filteredFiles[k].parsedData[1].startDate.time
            /\ ~(~HasConcreteDate(j) /\ HasConcreteDate(k))
            /\ (~HasConcreteDate(j) /\ ~HasConcreteDate(k)) =>
                   filteredFiles[j].id < filteredFiles[k].id

-----------------------------------------------------------------------------
(* Positional fields of the parser, checked under SpecParse *)

\* the tokens of s: its maximal runs of characters that are not white space
RECURSIVE WhitespaceTokens(_)
WhitespaceTokens(s) ==
    IF s = <<>> THEN <<>>
    ELSE IF IsWhiteSpace(s[1]) THEN WhitespaceTokens(Tail(s))
    ELSE IF \E i \in DOMAIN s : IsWhiteSpace(s[i])
    THEN <<SubSeq(s, 1, (CHOOSE i \in DOMAIN s :
                             /\ IsWhiteSpace(s[i])
                             /\ \A j \in 1..(i - 1) : ~IsWhiteSpace(s[j])) - 1)>>
             \o WhitespaceTokens(Drop(s, CHOOSE i \in DOMAIN s :
                                             /\ IsWhiteSpace(s[i])
                                             /\ \A j \in 1..(i - 1) : ~IsWhiteSpace(s[j])))
    ELSE <<s>>

\* name ends with ".pdf" in any letter case
HasPdfExtension(name) ==
    /\ Len(name) >= 4
    /\ ToLowerCase(SubSeq(name, Len(name) - 3, Len(name))) = <<".", "p", "d", "f">>

\* name without a trailing ".pdf"
WithoutExtension(name) ==
    IF HasPdfExtension(name) THEN SubSeq(name, 1, Len(name) - 4) ELSE name

\* the tokens of a name, its extension stripped
TokensOfName(name) == WhitespaceTokens(WithoutExtension(name))

\* tokens 3 onward (counted from 0) joined by single spaces
TailOfTokens(tokens) == Join(SubSeq(tokens, 4, Len(tokens)), " ")

NumberOfCommas(s) == Cardinality({i \in DOMAIN s : s[i] = ","})

\* the record r takes its fields from tokens as C11 says
AssignedWithComma(r, tokens, tail) ==
    /\ r.dateRange = tokens[1]
    /\ r.monthYear = tokens[2]
    /\ r.type = tokens[3]
    /\ r.location = Trim(BeforeFirstComma(tail))
    /\ r.country = Trim(AfterFirstComma(tail))

\* C11: for a name ending in ".pdf" with at least four tokens and exactly one
\* comma in its tail, dateRange, monthYear and type are tokens 0, 1 and 2,
\* location is the trimmed tail before the comma and country the trimmed tail
\* after it; "14-15 June2025 Classical Paris, France.pdf" gives "14-15",
\* "June2025", "Classical", "Paris", "France".
C11_PositionalWithComma ==
    \A p \in Parsed :
        (/\ HasPdfExtension(p[1])
         /\ Len(TokensOfName(p[1])) >= 4
         /\ NumberOfCommas(TailOfTokens(TokensOfName(p[1]))) = 1)
            => AssignedWithComma(p[2], TokensOfName(p[1]),
                                 TailOfTokens(TokensOfName(p[1])))

\* C12: when the tail has no comma, location is the whole tail and country
\* is "Unknown"; "22 July2025 Rapid Kochi.pdf" gives "Kochi" and "Unknown".
C12_NoCommaTail ==
    \A p \in Parsed :
        (/\ Len(TokensOfName(p[1])) >= 4
         /\ NumberOfCommas(TailOfTokens(TokensOfName(p[1]))) = 0)
            => /\ p[2].location = TailOfTokens(TokensOfName(p[1]))
               /\ p[2].country = Unknown

\* token k (counted from 1) of tokens, the empty string when there is none
TokenOrEmpty(tokens, k) == IF k <= Len(tokens) THEN tokens[k] ELSE <<>>

\* C13: a name with fewer than four tokens gives dateRange, monthYear and
\* type the tokens there are, in this order, and the empty string to the
\* rest and to location, and "Unknown" to country; "5 August2025.pdf" gives
\* "5", "August2025", "", "", "Unknown".
C13_FewerThanFourTokens ==
    \A p \in Parsed :
        Len(TokensOfName(p[1])) < 4 =>
            /\ p[2].dateRange = TokenOrEmpty(TokensOfName(p[1]), 1)
            /\ p[2].monthYear = TokenOrEmpty(TokensOfName(p[1]), 2)
            /\ p[2].type = TokenOrEmpty(TokensOfName(p[1]), 3)
            /\ p[2].location = <<>>
            /\ p[2].country = Unknown

-----------------------------------------------------------------------------
(* Further properties of the App component, checked under Spec *)

\* the record files[i] has no startDate
NullDated(i) == parseFilename(files[i].name).startDate = NullDate

\* the record files[i] is in the displayed list
Displayed(i) == \E j \in DOMAIN filteredFiles : filteredFiles[j].id = files[i].id

\* the record files[i] passes the search text and the three facet selections
PassesSearchAndFacets(i) ==
    /\ Includes(ToLowerCase(files[i].name), ToLowerCase(search))
    /\ (monthFilter = All \/ parseFilename(files[i].name).monthYear = monthFilter)
    /\ (countryFilter = All \/ parseFilename(files[i].name).country = countryFilter)
    /\ (typeFilter = All \/ parseFilename(files[i].name).type = typeFilter)

\* every count of options is made of records that have a startDate
CountsOnlyDated(options, attribute, matching) ==
    \A k \in 2..Len(options) :
        CountShown(options[k].label) =
            Cardinality({i \in matching :
                /\ ~NullDated(i)
                /\ parseFilename(files[i].name)[attribute] = options[k].value})

\* C14: a record whose startDate is null is displayed under the status "All"
\* when it passes the other filters; under "Upcoming" and "Completed" it is
\* not displayed and counted in no facet option.
C14_NullDateOnlyUnderAll ==
    /\ \A i \in DOMAIN files :
           NullDated(i) =>
               IF statusFilter = "All" THEN PassesSearchAndFacets(i) => Displayed(i)
               ELSE ~Displayed(i)
    /\ statusFilter # "All" =>
           /\ CountsOnlyDated(monthOptions, "monthYear", MatchingOthers("monthYear"))
           /\ CountsOnlyDated(countryOptions, "country", MatchingOthers("country"))
           /\ CountsOnlyDated(typeOptions, "type", MatchingOthers("type"))

\* C14's case: under the status Completed a record without startDate is
\* fetched next to a completed one, which alone is displayed and counted
C14_Witness ==
    /\ statusFilter = "Completed"
    /\ Len(files) = 2
    /\ \E i \in DOMAIN files : NullDated(i) /\ ~Displayed(i)
    /\ Len(filteredFiles) = 1
    /\ Len(countryOptions) = 2

\* the first option is "All" labelled "All", and no option has the empty value
AllFirstNoneEmpty(options) ==
    /\ options[1].value = All
    /\ options[1].label = All
    /\ \A k \in DOMAIN options : options[k].value # <<>>

\* C15: in each facet option list the first option is "All" with the label
\* "All" and no count, and no option has the empty string as its value.
C15_AllFirstNoEmptyValue ==
    /\ AllFirstNoneEmpty(monthOptions)
    /\ AllFirstNoneEmpty(countryOptions)
    /\ AllFirstNoneEmpty(typeOptions)

\* C15's case: under the status "All" a record without monthYear and type is
\* displayed next to one that has them, and the lists offer one value each
C15_Witness ==
    /\ statusFilter = "All"
    /\ Len(filteredFiles) = 2
    /\ \E i \in DOMAIN files :
           /\ parseFilename(files[i].name).type = <<>>
           /\ parseFilename(files[i].name).monthYear = <<>>
    /\ Len(typeOptions) = 2
    /\ Len(monthOptions) = 2

\* C18: computing the displayed list and the options leaves the fetched
\* records as they were fetched, with no field added, in the fetched order.
C18_FetchedRecordsUntouched ==
    \A i \in DOMAIN files : files[i] = FetchedFile(i, files[i].name)

\* the records fs as they were fetched
Pristine(fs) == [i \in DOMAIN fs |-> FetchedFile(fs[i].id, fs[i].name)]

\* C19: computing the view again from the same records, filter state and
\* clock gives the displayed list and the three option lists it gave before,
\* also when the records already went through a computation.
C19_RecomputationAgrees ==
    /\ FilteredFilesOutcomes(files, search, monthFilter, countryFilter, typeFilter,
                             statusFilter, now)
           = FilteredFilesOutcomes(Pristine(files), search, monthFilter,
                                   countryFilter, typeFilter, statusFilter, now)
    /\ filteredFiles \in FilteredFilesOutcomes(files, search, monthFilter,
                             countryFilter, typeFilter, statusFilter, now)
    /\ monthOptions = MonthOptionsOf(files, now, countryFilter, typeFilter, search,
                                     statusFilter)
    /\ countryOptions = CountryOptionsOf(files, now, monthFilter, typeFilter, search,
                                         statusFilter)
    /\ typeOptions = TypeOptionsOf(files, now, monthFilter, countryFilter, search,
                                   statusFilter)

\* C19's case: the records carry the parsedData of an earlier computation,
\* a facet is selected and two dated records are displayed in date order
C19_Witness ==
    /\ Len(filteredFiles) = 2
    /\ \A i \in DOMAIN files : files[i].parsedData # <<>>
    /\ typeFilter # All \/ countryFilter # All \/ monthFilter # All
    /\ filteredFiles[1].id = 2

\* C20: with no record fetched the displayed list is empty and each of the
\* three option lists is "All" alone, whatever the filter state.
C20_EmptyListOnlyAll ==
    files = <<>> =>
        /\ filteredFiles = <<>>
        /\ monthOptions = <<AllOption>>
        /\ countryOptions = <<AllOption>>
        /\ typeOptions = <<AllOption>>

\* C20's case: the fetch brought no record, and search text and status were
\* changed since
C20_Witness ==
    /\ ~loading
    /\ files = <<>>
    /\ search # <<>>
    /\ statusFilter = "Completed"
    /\ filteredFiles = <<>>

-----------------------------------------------------------------------------
(* Month options harness: monthOptions computed from lists of files whose *)
(* names differ in their monthYear token                                  *)

\* file names by monthYear: three months of two years, one month name in two
\* years, and one month and year written in two ways
MonthCatalogue ==
    {<<"1"," ","M","a","r","c","h","2","0","2","6",".","p","d","f">>,
     <<"1"," ","J","a","n","u","a","r","y","2","0","2","5",".","p","d","f">>,
     <<"1"," ","D","e","c","e","m","b","e","r","2","0","2","5",".","p","d","f">>,
     <<"1"," ","J","u","n","e","2","0","2","5",".","p","d","f">>,
     <<"1"," ","J","u","n","e","2","0","2","6",".","p","d","f">>,
     <<"1"," ","J","u","n","e","2","0","2","5","-","2","6",".","p","d","f">>}

\* the longest list of the harness
MaxMonthFiles == 3

MonthLists == UNION {[1..n -> MonthCatalogue] : n \in 0..MaxMonthFiles}

InitMonths ==
    /\ engine \in Engines
    /\ now \in Clocks
    /\ \E names \in MonthLists :
           files = [i \in DOMAIN names |-> FetchedFile(i, names[i])]
    /\ search = <<>>
    /\ monthFilter = All
    /\ countryFilter = All
    /\ typeFilter = All
    /\ statusFilter = "All"
    /\ loading = FALSE
    /\ filteredFiles = <<>>
    /\ monthOptions = <<>>
    /\ countryOptions = <<>>
    /\ typeOptions = <<>>
    /\ NoParserState
    /\ NoFetchState

\* lines 216-260: the monthOptions memo computed for files
ComputeMonthOptions ==
    /\ monthOptions = <<>>
    /\ monthOptions' = MonthOptionsOf(files, now, countryFilter, typeFilter, search,
                                      statusFilter)
    /\ UNCHANGED <<engine, now, files, search, monthFilter, countryFilter, typeFilter,
                   statusFilter, loading, filteredFiles, countryOptions, typeOptions,
                   parseVars, fetchVars>>

NextMonths == ComputeMonthOptions

SpecMonths == InitMonths /\ [][NextMonths]_vars

-----------------------------------------------------------------------------
(* Properties of the month options, checked under SpecMonths *)

\* the monthYear value v has a 4-digit year
HasYear(v) == MatchYear(v) # <<>>

\* the place of a month name in the calendar, 0 for a name that is no month
CalendarPlace(name) ==
    IF \E i \in DOMAIN MonthNames : MonthNames[i] = name
    THEN CHOOSE i \in DOMAIN MonthNames : MonthNames[i] = name
    ELSE 0

\* the option value a may stand before the option value b
MayPrecede(a, b) ==
    (HasYear(a) /\ HasYear(b)) =>
        /\ DigitsToNat(MatchYear(a)[1]) <= DigitsToNat(MatchYear(b)[1])
        /\ (/\ DigitsToNat(MatchYear(a)[1]) = DigitsToNat(MatchYear(b)[1])
            /\ CalendarPlace(getMonthName(a)) > 0
            /\ CalendarPlace(getMonthName(b)) > 0)
               => CalendarPlace(getMonthName(a)) <= CalendarPlace(getMonthName(b))

March2026 == <<"M","a","r","c","h","2","0","2","6">>
January2025 == <<"J","a","n","u","a","r","y","2","0","2","5">>
December2025 == <<"D","e","c","e","m","b","e","r","2","0","2","5">>

\* C16: the month options after "All" ascend by the 4-digit year of their
\* value and, within a year, by the place of the month name in the calendar;
\* March2026, January2025 and December2025 are listed as January2025,
\* December2025, March2026 in whatever order the files arrive.
C16_MonthsInCalendarOrder ==
    monthOptions # <<>> =>
        /\ \A j, k \in 2..Len(monthOptions) :
               j < k => MayPrecede(monthOptions[j].value, monthOptions[k].value)
        /\ OptionValues(monthOptions) = {All, March2026, January2025, December2025}
               => KeysOf(monthOptions) = <<All, January2025, December2025, March2026>>

\* C16's case: files of March2026, January2025 and December2025 arrive in
\* this order and the options list them by year and month
C16_Witness ==
    /\ Len(files) = 3
    /\ parseFilename(files[1].name).monthYear = March2026
    /\ parseFilename(files[2].name).monthYear = January2025
    /\ parseFilename(files[3].name).monthYear = December2025
    /\ KeysOf(monthOptions) = <<All, January2025, December2025, March2026>>

\* a label without its count: the text before " (<count>)"
LabelText(label) ==
    SubSeq(label, 1, Max({i \in DOMAIN label : label[i] = "("}) - 2)

\* the label text of the month value v: with the year if withYear, bare if not
ExpectedLabelText(v, withYear) ==
    IF withYear THEN getMonthName(v) \o <<" ">> \o NatToDigits(getYear(v))
    ELSE getMonthName(v)

\* another month option than the one at k has its month name and another year
SameNameOtherYear(k) ==
    \E o \in 2..Len(monthOptions) :
        /\ o # k
        /\ getMonthName(monthOptions[o].value) = getMonthName(monthOptions[k].value)
        /\ getYear(monthOptions[o].value) # getYear(monthOptions[k].value)

\* another month option than the one at k has its month name
SameNameOtherOption(k) ==
    \E o \in 2..Len(monthOptions) :
        /\ o # k
        /\ getMonthName(monthOptions[o].value) = getMonthName(monthOptions[k].value)

-----------------------------------------------------------------------------
(* TournamentCard's own parseFilename, in the four revisions the repository
   holds (unnamed/part_000 lines 4-16, 59-79, 160-191 and 293-302) *)

\* the record a card displays
CardRecord(dateRange, monthYear, type, location, country) ==
    [dateRange |-> dateRange,
     monthYear |-> monthYear,
     type      |-> type,
     location  |-> location,
     country   |-> country]

\* { dateRange: '', monthYear: '', type: '', location: '', country: 'Unknown' }
EmptyCardRecord == CardRecord(<<>>, <<>>, <<>>, <<>>, Unknown)

\* const [location = '', countryRaw = 'Unknown'] = ...: the default stands in for
\* a missing second element only, an empty one stays empty
CountryRawOrDefault(commaParts) ==
    IF Len(commaParts) >= 2 THEN commaParts[2] ELSE Unknown

\* lines 4-16: noExt.split(' ') unfiltered, country: countryRaw || 'Unknown'
CardParseFilename4(name) ==
    LET parts == Split(StripPdf(name), " ")
        commaParts == CommaParts(LocationCountry(parts))
    IN  CardRecord(PartOrEmpty(parts, 1), PartOrEmpty(parts, 2), PartOrEmpty(parts, 3),
                   commaParts[1], CountryOf(commaParts))

\* lines 59-79: noExt.split(' ') unfiltered, country: countryRaw in both branches
CardParseFilename59(name) ==
    IF name = <<>> THEN EmptyCardRecord
    ELSE LET parts == Split(StripPdf(name), " ")
             commaParts == CommaParts(LocationCountry(parts))
         IN  CardRecord(PartOrEmpty(parts, 1), PartOrEmpty(parts, 2),
                        PartOrEmpty(parts, 3), commaParts[1],
                        CountryRawOrDefault(commaParts))

\* lines 160-191: the blank parts filtered out, country: countryRaw || 'Unknown'
CardParseFilename160(name) ==
    LET parts == Tokens(StripPdf(name))
        commaParts == CommaParts(LocationCountry(parts))
    IN  CardRecord(PartOrEmpty(parts, 1), PartOrEmpty(parts, 2), PartOrEmpty(parts, 3),
                   commaParts[1], CountryOf(commaParts))

\* lines 293-302: fewer than four parts give the empty record, country: countryRaw
CardParseFilename293(name) ==
    IF name = <<>> THEN EmptyCardRecord
    ELSE LET parts == Split(StripPdf(name), " ")
             commaParts == CommaParts(LocationCountry(parts))
         IN  IF Len(parts) < 4 THEN EmptyCardRecord
             ELSE CardRecord(parts[1], parts[2], parts[3], commaParts[1],
                             CountryRawOrDefault(commaParts))

\* the revisions, by the line their parseFilename starts at
CardRevisions == {4, 59, 160, 293}

CardParseFilename(rev, name) ==
    CASE rev = 4   -> CardParseFilename4(name)
      [] rev = 59  -> CardParseFilename59(name)
      [] rev = 160 -> CardParseFilename160(name)
      [] rev = 293 -> CardParseFilename293(name)

\* names whose tail ends with a comma, and a name with a doubled separator
CardExampleNames ==
    {<<"1"," ","J","u","n","e","2","0","2","5"," ","R","a","p","i","d"," ","P","a","r","i","s",",",".","p","d","f">>,
     <<"1"," ","J","u","n","e","2","0","2","5"," ","R","a","p","i","d"," ","P","a","r","i","s",","," ",".","p","d","f">>,
     <<"1"," "," ","J","u","n","e","2","0","2","5"," ","R","a","p","i","d"," ","P","a","r","i","s",","," ","F","r","a","n","c","e",".","p","d","f">>}

CardInputs == ParserInputs \cup CardExampleNames

InitCard ==
    /\ engine \in Engines
    /\ pname \in CardInputs
    /\ prec = <<>>
    /\ vname = <<>>
    /\ vrec = <<>>
    /\ card = <<>>
    /\ NoAppState
    /\ NoFetchState

\* TournamentCard({ file }) in one of the revisions: parseFilename(file.name)
TournamentCard ==
    /\ card = <<>>
    /\ \E rev \in CardRevisions :
           card' = <<[rev |-> rev, data |-> CardParseFilename(rev, pname)]>>
    /\ UNCHANGED <<engine, pname, prec, vname, vrec, appVars, fetchVars>>

NextCard == Parse \/ TournamentCard

SpecCard == InitCard /\ [][NextCard]_vars

-----------------------------------------------------------------------------
(* Properties of the card's parser, checked under SpecCard *)

CardFields == {"dateRange", "monthYear", "type", "location", "country"}

\* C21: the country a card derives with the revisions at lines 59-79 and 293-302
\* is never the empty string, whatever the name.
C21_CardCountryNeverEmpty ==
    (card # <<>> /\ card[1].rev \in {59, 293}) => card[1].data.country # <<>>

\* C24: for every name, the five fields the card's parseFilename (revisions at
\* lines 4-16 and 59-79) derives equal the fields App's parseFilename derives.
C24_CardFieldsEqualAppFields ==
    (card # <<>> /\ prec # <<>> /\ card[1].rev \in {4, 59})
        => \A f \in CardFields : card[1].data[f] = prec[1][f]

\* the revision at lines 160-191 derives App's fields
CardRevision160EqualsApp ==
    (card # <<>> /\ prec # <<>> /\ card[1].rev = 160)
        => \A f \in CardFields : card[1].data[f] = prec[1][f]

-----------------------------------------------------------------------------
(* Selections and option lists, checked under Spec *)

\* C22: after any sequence of filter changes, each picked from the options on
\* offer, the selection of each facet is "All" or a value of that facet's
\* current option list.
C22_SelectionAmongOptions ==
    /\ monthFilter = All \/ monthFilter \in OptionValues(monthOptions)
    /\ countryFilter = All \/ countryFilter \in OptionValues(countryOptions)
    /\ typeFilter = All \/ typeFilter \in OptionValues(typeOptions)

-----------------------------------------------------------------------------
(* The wall clock advancing between renders *)

\* time passes: no state of App changes, so nothing renders; the memos read
\* new Date() (lines 127 and 167) only when they are next recomputed
Tick ==
    /\ \E t \in Clocks : t > now /\ now' = t
    /\ UNCHANGED <<engine, files, search, monthFilter, countryFilter, typeFilter,
                   statusFilter, loading, filteredFiles, monthOptions, countryOptions,
                   typeOptions, parseVars, fetchVars>>

NextClock == Next \/ Tick

SpecClock == Init /\ [][NextClock]_vars

\* C23: in every reachable state, clock advances included, if a facet's
\* selection is not "All" and is among the facet's current options, the count
\* shown for it is the length of the displayed list.
C23_SelectedCountIsDisplayedLength ==
    /\ \A k \in 2..Len(monthOptions) :
           monthOptions[k].value = monthFilter
               => CountShown(monthOptions[k].label) = Len(filteredFiles)
    /\ \A k \in 2..Len(countryOptions) :
           countryOptions[k].value = countryFilter
               => CountShown(countryOptions[k].label) = Len(filteredFiles)
    /\ \A k \in 2..Len(typeOptions) :
           typeOptions[k].value = typeFilter
               => CountShown(typeOptions[k].label) = Len(filteredFiles)

-----------------------------------------------------------------------------
(* areFiltersActive and clearFilters, checked under Spec *)

\* areFiltersActive without the test of the status
areFiltersActive_StatusIgnored ==
    search # <<>> \/ monthFilter # All \/ countryFilter # All \/ typeFilter # All

\* lines 290-292: the memo depends on all five filter fields, so it is current
\* in every render
areFiltersActive ==
    \/ search # <<>>
    \/ monthFilter # All
    \/ countryFilter # All
    \/ typeFilter # All
    \/ statusFilter # "Upcoming"

\* the filter state App starts with
DefaultFilterState ==
    /\ search = <<>>
    /\ monthFilter = All
    /\ countryFilter = All
    /\ typeFilter = All
    /\ statusFilter = "Upcoming"

\* C25: areFiltersActive is false exactly in the default filter state; every
\* clearFilters step ends in the default state with areFiltersActive false;
\* and a clearFilters step taken in the default state changes nothing.
C25_ClearFiltersRestoresDefault ==
    /\ [](areFiltersActive <=> ~DefaultFilterState)
    /\ [][clearFilters => (DefaultFilterState' /\ ~areFiltersActive')]_vars
    /\ [][(DefaultFilterState /\ clearFilters) => UNCHANGED vars]_vars

\* C25's case: records are on display under the default filter state, which
\* clearFilters has been taken in
C25_Witness ==
    /\ ~loading
    /\ Len(filteredFiles) > 0
    /\ DefaultFilterState
    /\ ~areFiltersActive

-----------------------------------------------------------------------------
(* The mount effect and fetchAllFiles, App.jsx lines 78-124.  The state
   updates made in one run of the continuation after an await are applied in
   one render. *)

\* the most requests one listing takes
MaxPages == 3

\* the nextPageToken values the server hands out
PageTokens == {"t1", "t2"}

\* data.files of one page (a missing files field counts as [])
PageFiles ==
    {<<>>,
     <<<<"1","4","-","1","5"," ","J","u","n","e","2","0","2","5"," ","R","a","p","i","d"," ","P","a","r","i","s",","," ","F","r","a","n","c","e",".","p","d","f">>>>,
     <<<<"5"," ","J","u","n","e","2","0","2","6"," ","B","l","i","t","z"," ","K","o","c","h","i",".","p","d","f">>>>}

\* line 81, and line 114 for a rejected fetch and for a non-OK status (line 107)
ConfigurationError == "Configuration error: API Key or Folder ID is missing."
FailureMessages ==
    {"Failed to load tournaments: Failed to fetch. Please try again later.",
     "Failed to load tournaments: HTTP error! status: 500. Please try again later."}

\* line 110 with the page's files dropped in place of appended
AllFilesAfter_PageOnly(all, pageFiles) == pageFiles

\* line 110: allFiles = [...allFiles, ...(data.files || [])]
AllFilesAfter(all, pageFiles) == all \o pageFiles

\* lines 119-120 (after line 114 when err is a message): setFiles(allFiles),
\* setLoading(false), and the render that follows
Publish(names, err) ==
    /\ Render(TRUE, [i \in DOMAIN names |-> FetchedFile(i, names[i])],
              search, monthFilter, countryFilter, typeFilter, statusFilter)
    /\ loading' = FALSE
    /\ error' = err
    /\ published' = published + 1
    /\ pc' = "done"

InitFetch ==
    /\ engine \in Engines
    /\ now \in Clocks
    /\ files = <<>>
    /\ search = <<>>
    /\ monthFilter = All
    /\ countryFilter = All
    /\ typeFilter = All
    /\ statusFilter = "Upcoming"
    /\ loading = TRUE
    /\ filteredFiles = <<>>
    /\ monthOptions = <<AllOption>>
    /\ countryOptions = <<AllOption>>
    /\ typeOptions = <<AllOption>>
    /\ NoParserState
    /\ configured \in BOOLEAN
    /\ pc = "mount"
    /\ allFiles = <<>>
    /\ nextPageToken = NoToken
    /\ pages = <<>>
    /\ published = 0
    /\ error = NoError

\* MountUnconfigured without setLoading(false)
MountUnconfigured_LoadingKept ==
    /\ pc = "mount"
    /\ ~configured
    /\ error' = ConfigurationError
    /\ pc' = "done"
    /\ UNCHANGED <<engine, parseVars, appVars, configured, allFiles, nextPageToken,
                   pages, published>>

\* lines 79-84: the key or the folder id is missing
MountUnconfigured ==
    /\ pc = "mount"
    /\ ~configured
    /\ error' = ConfigurationError
    /\ loading' = FALSE
    /\ pc' = "done"
    /\ UNCHANGED <<engine, parseVars, files, search, monthFilter, countryFilter,
                   typeFilter, statusFilter, now, filteredFiles, monthOptions,
                   countryOptions, typeOptions, configured, allFiles, nextPageToken,
                   pages, published>>

\* lines 86-105: fetchAllFiles starts and sends the first request
MountConfigured ==
    /\ pc = "mount"
    /\ configured
    /\ loading' = TRUE
    /\ error' = NoError
    /\ allFiles' = <<>>
    /\ nextPageToken' = NoToken
    /\ pc' = "request"
    /\ UNCHANGED <<engine, parseVars, files, search, monthFilter, countryFilter,
                   typeFilter, statusFilter, now, filteredFiles, monthOptions,
                   countryOptions, typeOptions, configured, pages, published>>

\* lines 105-111 and 117: a page arrives; with a token the next request is
\* sent, without one the loop ends and lines 119-120 publish
PageArrives ==
    /\ pc = "request"
    /\ Len(pages) < MaxPages
    /\ \E pageFiles \in PageFiles, next \in PageTokens \cup {NoToken} :
           /\ Len(pages) + 1 = MaxPages => next = NoToken
           /\ pages' = Append(pages, [token |-> nextPageToken, files |-> pageFiles,
                                      next |-> next])
           /\ allFiles' = AllFilesAfter(allFiles, pageFiles)
           /\ nextPageToken' = next
           /\ IF next # NoToken
              THEN /\ pc' = "request"
                   /\ UNCHANGED <<appVars, published, error>>
              ELSE /\ Publish(allFiles', error)
                   /\ UNCHANGED now
    /\ UNCHANGED <<engine, parseVars, configured>>

\* PageFails without the break: the error is set and the loop goes on
PageFails_NoBreak ==
    /\ pc = "request"
    /\ \E message \in FailureMessages : error' = message
    /\ UNCHANGED <<engine, parseVars, appVars, configured, pc, allFiles,
                   nextPageToken, pages, published>>

\* lines 105-108 and 112-120: the request is rejected or answered with a non-OK
\* status; the catch sets the error and breaks, lines 119-120 publish
PageFails ==
    /\ pc = "request"
    /\ \E message \in FailureMessages : Publish(allFiles, message)
    /\ UNCHANGED <<engine, parseVars, now, configured, allFiles, nextPageToken, pages>>

NextFetch ==
    \/ MountUnconfigured
    \/ MountConfigured
    \/ PageArrives
    \/ PageFails

SpecFetch == InitFetch /\ [][NextFetch]_vars

-----------------------------------------------------------------------------
(* Properties of the mount effect, checked under SpecFetch and SpecFetchFair *)

\* the names of the records of fs, in order
NamesOf(fs) == [i \in DOMAIN fs |-> fs[i].name]

\* the files of the pages answered so far, in the order the pages arrived
RECURSIVE FilesOfPages(_)
FilesOfPages(ps) ==
    IF ps = <<>> THEN <<>> ELSE Head(ps).files \o FilesOfPages(Tail(ps))

\* the listing was read to its last page: the last answer carried no token
ListingComplete == pages # <<>> /\ pages[Len(pages)].next = NoToken

\* the steps the mount effect has left at most: its position, and the requests
\* the listing can still take
FetchVariant ==
    (IF pc = "mount" THEN 2 ELSE IF pc = "request" THEN 1 ELSE 0)
        + (MaxPages - Len(pages))

\* C26: after mount loading becomes false and stays false in every outcome.
\* Every step of the effect lowers a measure that is never negative, so that
\* the effect ends once each request completes; where it has ended, with the
\* key missing, after a failed request or after the last page, loading is
\* false; loading never returns to true; and with the key missing no request
\* is ever in flight.
C26_LoadingEventuallyFalse ==
    /\ [](FetchVariant >= 0)
    /\ [][FetchVariant' < FetchVariant]_vars
    /\ [](pc = "done" => loading = FALSE)
    /\ [][loading = FALSE => loading' = FALSE]_vars
    /\ [](~configured => (pc # "request" /\ pages = <<>>))

\* C26's case: a listing that failed on its second request has ended loading
C26_Witness ==
    /\ pc = "done"
    /\ loading = FALSE
    /\ error \in FailureMessages
    /\ Len(pages) = 1

\* each page was requested with the token the page before it carried, the
\* first with none
TokensChained ==
    \A k \in DOMAIN pages :
        pages[k].token = (IF k = 1 THEN NoToken ELSE pages[k - 1].next)

\* C27 as stated: once the mount effect has run the file list has been
\* published exactly once, and only after the page loop ended; while loading
\* is true files is empty; on success files is the concatenation of the pages'
\* files in fetch order; each page was requested with the token of the page
\* before it.
C27_PublishedExactlyOnce ==
    /\ pc = "done" => published = 1
    /\ published > 0 => pc = "done"
    /\ loading => files = <<>>
    /\ (pc = "done" /\ error = NoError) => NamesOf(files) = FilesOfPages(pages)
    /\ TokensChained

\* C27, amended: the file list is published at most once per mount, exactly
\* once when the key and the folder id are set and never when one is missing,
\* and only after the page loop ended; while loading is true files is empty;
\* on success files is the concatenation of the pages' files in fetch order;
\* each page was requested with the token of the page before it.
C27_PublishedOnceIfConfigured ==
    /\ published <= 1
    /\ pc = "done" => published = (IF configured THEN 1 ELSE 0)
    /\ published > 0 => pc = "done"
    /\ loading => files = <<>>
    /\ (pc = "done" /\ configured /\ error = NoError)
           => (ListingComplete /\ NamesOf(files) = FilesOfPages(pages))
    /\ TokensChained

\* C27's case: a listing of two pages with one file each was published
C27_Witness ==
    /\ pc = "done"
    /\ error = NoError
    /\ published = 1
    /\ Len(pages) = 2
    /\ pages[1].next # NoToken
    /\ Len(files) = 2
    /\ files[1].name # files[2].name

\* C28: when a page request fails the error becomes non-null and stays so, no
\* further page is requested, and files holds exactly the files of the pages
\* fetched before the failure; a fetch that completes without failure leaves
\* the error null.
C28_FailureStopsAndKeepsPages ==
    /\ [][PageFails => error' \in FailureMessages]_vars
    /\ []((configured /\ error # NoError)
              => /\ pc = "done"
                 /\ ~ListingComplete
                 /\ NamesOf(files) = FilesOfPages(pages))
    /\ [][error # NoError => (error' # NoError /\ pages' = pages /\ pc' = pc)]_vars
    /\ []((pc = "done" /\ ListingComplete) => error = NoError)

\* C28's case: the request after a page with a file failed
C28_Witness ==
    /\ pc = "done"
    /\ error \in FailureMessages
    /\ Len(pages) = 1
    /\ pages[1].next # NoToken
    /\ Len(files) = 1

-----------------------------------------------------------------------------
(* The cached parsedData, checked under Spec *)

\* C30: each record that carries a cached parsedData, in files and in the
\* displayed list, has parsedData equal to parseFilename of its name, the
\* value the facet counts are computed from.
C30_CacheIsParseOfName ==
    /\ \A i \in DOMAIN files :
           files[i].parsedData # <<>>
               => files[i].parsedData = <<parseFilename(files[i].name)>>
    /\ \A i \in DOMAIN filteredFiles :
           filteredFiles[i].parsedData = <<parseFilename(filteredFiles[i].name)>>

\* C30's case: two records of different names carry their cache through a
\* later computation that displays one of them
C30_Witness ==
    /\ Len(files) = 2
    /\ files[1].name # files[2].name
    /\ \A i \in DOMAIN files : files[i].parsedData # <<>>
    /\ search # <<>>
    /\ Len(filteredFiles) = 1

-----------------------------------------------------------------------------
(* Records whose parsed monthYear, type or country is the text "All" *)

SentinelCatalogue ==
    {<<"1","4","-","1","5"," ","J","u","n","e","2","0","2","5"," ","A","l","l"," ","P","a","r","i","s",","," ","F","r","a","n","c","e",".","p","d","f">>,
     <<"5"," ","J","u","n","e","2","0","2","6"," ","R","a","p","i","d"," ","R","o","m","e",","," ","A","l","l",".","p","d","f">>,
     <<"1"," ","A","l","l"," ","B","l","i","t","z"," ","O","s","l","o",","," ","N","o","r","w","a","y",".","p","d","f">>,
     <<"5"," ","J","u","n","e","2","0","2","6"," ","B","l","i","t","z"," ","K","o","c","h","i",".","p","d","f">>}

MaxSentinelFiles == 2

SentinelLists == UNION {[1..n -> SentinelCatalogue] : n \in 1..MaxSentinelFiles}

\* lines 119-120 for a folder that holds such names
FetchSentinel ==
    /\ loading
    /\ \E names \in SentinelLists :
           Render(TRUE, [i \in DOMAIN names |-> FetchedFile(i, names[i])],
                  search, monthFilter, countryFilter, typeFilter, statusFilter)
    /\ loading' = FALSE
    /\ UNCHANGED <<engine, now, parseVars, fetchVars>>

NextSentinel ==
    \/ FetchSentinel
    \/ SetSearch
    \/ SetMonth
    \/ SetCountry
    \/ SetType
    \/ SetStatusFilter
    \/ clearFilters

SpecSentinel == Init /\ [][NextSentinel]_vars

\* the value "All" occurs once in options and no value occurs twice
ValuesDistinct(options) ==
    /\ Cardinality({k \in DOMAIN options : options[k].value = All}) = 1
    /\ \A j, k \in DOMAIN options : options[j].value = options[k].value => j = k

\* C29: in every facet option list the value "All" occurs exactly once and the
\* values are pairwise distinct, also when a record's parsed monthYear, type
\* or country is the text "All"; and when a facet's selection is the value of
\* an option other than the first, every displayed record has that value.
C29_AllOnceAndSelectionRestricts ==
    /\ ValuesDistinct(monthOptions)
    /\ ValuesDistinct(countryOptions)
    /\ ValuesDistinct(typeOptions)
    /\ (\E k \in 2..Len(monthOptions) : monthOptions[k].value = monthFilter)
           => \A i \in DOMAIN filteredFiles :
                  parseFilename(filteredFiles[i].name).monthYear = monthFilter
    /\ (\E k \in 2..Len(countryOptions) : countryOptions[k].value = countryFilter)
           => \A i \in DOMAIN filteredFiles :
                  parseFilename(filteredFiles[i].name).country = countryFilter
    /\ (\E k \in 2..Len(typeOptions) : typeOptions[k].value = typeFilter)
           => \A i \in DOMAIN filteredFiles :
                  parseFilename(filteredFiles[i].name).type = typeFilter

=============================================================================
